---------------------------- MODULE Spec2Model ----------------------------
(***************************************************************************)
(* A model of xnt.fix_api (python-fix-api): the FixAdapter application     *)
(* that sits on a QuickFIX engine, its Collector of response queues, and   *)
(* the Status objects of xnt.models.fix_api_models.                        *)
(*                                                                         *)
(* The QuickFIX engine itself (sequence numbers, heartbeats, resend) is an *)
(* external library; of it the model keeps only what the adapter reads     *)
(* (lookupSession / isLoggedOn) and the callbacks it makes on the adapter. *)
(***************************************************************************)
EXTENDS Integers, Sequences, FiniteSets, TLC

VARIABLES
    engine,      \* engine's sessions: what session.lookupSession(id) finds
    status,      \* FixAdapter.status : Dict[str, Status]
    attrs,       \* the Collector instance's __dict__ (setattr/getattr/delattr)
    md_queue_l,  \* Collector._md_queue_l
    last,        \* outcome of the most recent request or fromApp call
    nin,         \* number of application messages the engine has handed to fromApp
    nreq,        \* number of request-method calls made so far
    nuuid,       \* number of uuid4() values drawn so far
    budget,      \* how many calls (requests and inbound messages) a behaviour makes
    sub,         \* a stand-alone MDSub object (puts and gets applied directly)
    arrived,     \* history: every item ever put into sub, in arrival order
    lastGot,     \* history: serial of the item most recently returned by sub.get
    thread,      \* the requesting thread's position inside a request method
    robot        \* the robot's FeedHandler thread: its position and its State

vars == <<engine, status, attrs, md_queue_l, last, nin, nreq, nuuid, budget,
          sub, arrived, lastGot, thread, robot>>

---------------------------------------------------------------------------
(* Bounds of the model *)

MaxCalls == 2         \* calls in a behaviour of Spec (every method, every message type)
MaxFeedCalls == 3     \* calls in a behaviour of SpecFeed
MaxSessionCalls == 2  \* calls in a behaviour of SpecSession
MaxPuts == 4          \* puts into the stand-alone MDSub
MaxSize == 2          \* largest maxsize of the stand-alone MDSub

---------------------------------------------------------------------------
(* Values *)

NoneV == "<None>"                       \* Python's None

Sessions ==
    { [BeginString |-> "FIX.4.4", SenderCompID |-> "CLIENT", TargetCompID |-> "FEED"],
      [BeginString |-> "FIX.4.4", SenderCompID |-> "CLIENT", TargetCompID |-> "TRADE"] }

\* quickfix SessionID.toString(): "BeginString:SenderCompID->TargetCompID"
toString(session_id) ==
    session_id.BeginString \o ":" \o session_id.SenderCompID \o "->" \o session_id.TargetCompID

NoMsg == [mt |-> "none"]

\* the requesting thread is in no request method
Idle == [pc |-> "idle"]

\* the robot's FeedHandler before start(): no State for its symbol yet
NotStarted ==
    [pc |-> "new", acc_sum_id |-> NoneV, has_state |-> FALSE, position |-> 0,
     md_id |-> NoneV, order |-> NoneV]

\* the record every call leaves in `last`
Outcome(op, con, val, exc, msg) ==
    [op |-> op, con |-> con, val |-> val, exc |-> exc, msg |-> msg]

---------------------------------------------------------------------------
(* xnt.models.fix_api_models.Status *)

\* Status.__init__: a cleared threading.Event and the session id
Status(session_id) == [ses |-> session_id, stat |-> FALSE]

\* Status.login: self.stat.set()
login(st) == [st EXCEPT !.stat = TRUE]

\* Status.logout: self.stat.clear()
logout(st) == [st EXCEPT !.stat = FALSE]

\* Status.logened: self.stat.isSet()
logened(st) == st.stat

\* Status.uid: self.ses.toString()
uid(st) == toString(st.ses)

---------------------------------------------------------------------------
(* Engine side: FixAdapter._iscon reads the engine's session *)

\* a gate that lets a request through as soon as the engine has the session
_iscon_created(session_id) == engine[session_id] # "absent"

\* session.lookupSession(session_id) and, when found, isLoggedOn()
_iscon(session_id) ==
    IF engine[session_id] # "absent" THEN engine[session_id] = "loggedOn" ELSE FALSE

---------------------------------------------------------------------------
(* Identifier universes (strings).  Python keeps request ids, client order *)
(* ids, exchange order ids and the Collector's own attribute names in one  *)
(* namespace: the instance's attributes.                                   *)

ReqIds == {"a", "rejects", "_ord_map", "get"}        \* caller-supplied request ids
ClOrdIds == {"a", "c"}                               \* client order ids
OrderIds == {"o1", "o2"}                             \* exchange order ids
UuidIds == <<"u1", "u2", "u3", "u4", "u5">>                      \* successive str(uuid4().hex) values
AccSumIds == {7}                                     \* caller-supplied acc_sum_id (int)
Clock == 5                                           \* int(datetime.now().timestamp())

\* str(int) for the integers of the model
str(i) == CASE i = 5 -> "5" [] i = 7 -> "7" [] OTHER -> "0"

\* attributes every Collector has through its class (methods); of these the
\* model's universe names "get"
ClassAttrs == {"get"}

\* name.startswith('_') over the model's universe
startswith_(name) == name \in {"_ord_map"}

---------------------------------------------------------------------------
(* Objects held in Collector attributes.  One record shape for all kinds:  *)
(* q is the underlying deque, seq/status/exante_id are OrderSeq's fields   *)
(* (status/exante_id can be set on any Queue instance), map is a dict's    *)
(* items in insertion order.                                               *)

Obj(kind, maxsize, st) ==
    [kind |-> kind, maxsize |-> maxsize, q |-> <<>>, seq |-> <<>>,
     status |-> st, exante_id |-> NoneV, map |-> <<>>]

\* MDSub(maxsize=...): a queue.Queue subclass
MDSub(maxsize) == Obj("MDSub", maxsize, NoneV)

\* OrderSeq.__init__: seq = [], queue = Queue(maxsize=0), status = OrderStatus.NEW
OrderSeq == Obj("OrderSeq", 0, "0")

\* queue.Queue(maxsize=...)
Queue(maxsize) == Obj("Queue", maxsize, NoneV)

\* dict()
Dict == Obj("dict", 0, NoneV)

\* a put that appends without making room (queue.Queue's own _put)
MDSubPut_noDrop(o, item) == [o EXCEPT !.q = Append(@, item)]

\* MDSub.put: drop the first value on reaching maxsize, then append
MDSubPut(o, item) ==
    LET afterDrop == IF o.maxsize > 0 /\ Len(o.q) >= o.maxsize THEN Tail(o.q) ELSE o.q
    IN  [o EXCEPT !.q = Append(afterDrop, item)]

\* Queue.put on an unbounded queue (maxsize = 0 never blocks)
QueuePut(o, item) == [o EXCEPT !.q = Append(@, item)]

\* whether a queued item has a ClOrdID attribute (ExecutionReport, OrderCancelReject)
HasClOrdID(item) == item.cls \in {"ExecutionReport", "OrderCancelReject"}

\* a put that queues the item ahead of those already waiting
OrderSeqPut_front(o, item) ==
    [o EXCEPT !.seq = Append(@, item.msg.f[11]), !.q = <<item>> \o @]

\* OrderSeq.put: seq.append(item.ClOrdID); queue.put(item)
OrderSeqPut(o, item) ==
    [o EXCEPT !.seq = Append(@, item.msg.f[11]), !.q = Append(@, item)]

---------------------------------------------------------------------------
(* _ord_map: a dict, kept as its items in insertion order *)

Keys(m) == {m[i].k : i \in 1..Len(m)}

Lookup(m, k) == m[CHOOSE i \in 1..Len(m) : m[i].k = k].v

Assign(m, k, v) ==
    IF k \in Keys(m)
    THEN [i \in 1..Len(m) |-> IF m[i].k = k THEN [k |-> k, v |-> v] ELSE m[i]]
    ELSE Append(m, [k |-> k, v |-> v])

RemoveAt(m, j) == [i \in 1..(Len(m) - 1) |-> IF i < j THEN m[i] ELSE m[i + 1]]

---------------------------------------------------------------------------
(* Collector.  c is the instance's __dict__; an operation yields the new   *)
(* __dict__, the exception that escapes it ("none" when it returns) and,   *)
(* for get, the attribute whose object is returned.                        *)

Res(c, exc, ref) == [c |-> c, exc |-> exc, ref |-> ref]

setattr(c, name, o) == [x \in DOMAIN c \cup {name} |-> IF x = name THEN o ELSE c[x]]

delattr(c, name) == [x \in DOMAIN c \ {name} |-> c[x]]

hasattr(c, name) == name \in DOMAIN c \/ name \in ClassAttrs

\* Collector.__init__
CollectorInit == ("_ord_map" :> Dict) @@ ("rejects" :> Queue(0))

\* a register that bounds every queue by the market-data queue length
register_bounded(c, name, obj_type, mdl) ==
    IF obj_type = "MD" THEN setattr(c, name, MDSub(mdl))
    ELSE IF obj_type = "Order" THEN setattr(c, name, OrderSeq)
    ELSE IF obj_type \in {"AccSum", "SecList", "TradesList", "MarginList"}
         THEN setattr(c, name, Queue(mdl))
    ELSE c

\* Collector.register
register(c, name, obj_type, mdl) ==
    IF obj_type = "MD" THEN setattr(c, name, MDSub(mdl))
    ELSE IF obj_type = "Order" THEN setattr(c, name, OrderSeq)
    ELSE IF obj_type \in {"AccSum", "SecList", "TradesList", "MarginList"}
         THEN setattr(c, name, Queue(0))
    ELSE c

\* `name in self._ord_map` raises TypeError once _ord_map is no longer a dict
OrdMapIsDict(c) == c["_ord_map"].kind = "dict"

\* a binding that is made once and never replaced
bound_cl_ord_id_once(c, name, ex_ord_id) ==
    IF ~OrdMapIsDict(c) THEN Res(c, "TypeError", NoneV)
    ELSE IF name \notin Keys(c["_ord_map"].map)
         THEN Res([c EXCEPT !["_ord_map"].map = Assign(@, name, ex_ord_id)], "none", NoneV)
         ELSE Res(c, "none", NoneV)

\* Collector.bound_cl_ord_id
bound_cl_ord_id(c, name, ex_ord_id) ==
    IF ~OrdMapIsDict(c) THEN Res(c, "TypeError", NoneV)
    ELSE IF name \notin Keys(c["_ord_map"].map) \/ ex_ord_id # NoneV
         THEN Res([c EXCEPT !["_ord_map"].map = Assign(@, name, ex_ord_id)], "none", NoneV)
         ELSE Res(c, "none", NoneV)

\* Collector.deregister.  Popping from _ord_map inside the loop over its
\* items makes the next step of the iteration raise RuntimeError, which the
\* `except AttributeError` does not catch: the first matching key is gone,
\* delattr is never reached.
deregister(c, name) ==
    IF ~OrdMapIsDict(c) THEN Res(c, "TypeError", NoneV)
    ELSE LET m == c["_ord_map"].map IN
         IF name \in Keys(m)
         THEN LET ex_oid == Lookup(m, name)
                  first == CHOOSE i \in 1..Len(m) :
                              /\ m[i].v = ex_oid
                              /\ \A j \in 1..(i - 1) : m[j].v # ex_oid
              IN  Res([c EXCEPT !["_ord_map"].map = RemoveAt(m, first)], "RuntimeError", NoneV)
         ELSE IF ~startswith_(name)
              THEN IF name \in DOMAIN c
                   THEN Res(delattr(c, name), "none", NoneV)
                   ELSE Res(c, "none", NoneV)       \* AttributeError, caught
              ELSE Res(c, "none", NoneV)

\* Collector.get
get(c, name) ==
    IF ~OrdMapIsDict(c) THEN Res(c, "TypeError", NoneV)
    ELSE LET m == c["_ord_map"].map IN
         IF name \in Keys(m)
         THEN LET v == Lookup(m, name) IN
              IF v = NoneV THEN Res(c, "TypeError", NoneV)   \* getattr(self, None)
              ELSE IF hasattr(c, v) THEN Res(c, "none", v)
              ELSE Res(c, "none", NoneV)                     \* AttributeError, caught
         ELSE IF hasattr(c, name) THEN Res(c, "none", name)
              ELSE Res(c, "none", NoneV)

\* the expression self.collector.get(name): an instance attribute named
\* "get" shadows the method, and calling a queue raises TypeError
collector_get(c, name) ==
    IF "get" \in DOMAIN c THEN Res(c, "TypeError", NoneV) ELSE get(c, name)

\* <object>.put(item) on what get returned: None and bound methods have no
\* put, a dict has no put, OrderSeq.put needs item.ClOrdID
put(c, ref, item) ==
    IF ref = NoneV \/ ref \notin DOMAIN c THEN Res(c, "AttributeError", ref)
    ELSE LET o == c[ref] IN
         CASE o.kind = "MDSub" -> Res([c EXCEPT ![ref] = MDSubPut(o, item)], "none", ref)
           [] o.kind = "Queue" -> Res([c EXCEPT ![ref] = QueuePut(o, item)], "none", ref)
           [] o.kind = "OrderSeq" ->
                IF HasClOrdID(item)
                THEN Res([c EXCEPT ![ref] = OrderSeqPut(o, item)], "none", ref)
                ELSE Res(c, "AttributeError", ref)
           [] OTHER -> Res(c, "AttributeError", ref)

\* self.collector.get(name).put(item)
get_put(c, name, item) ==
    LET g == collector_get(c, name) IN
    IF g.exc # "none" THEN g ELSE put(c, g.ref, item)

\* self.collector.rejects.put(item)
rejects_put(c, item) ==
    IF "rejects" \notin DOMAIN c THEN Res(c, "AttributeError", NoneV)
    ELSE put(c, "rejects", item)

---------------------------------------------------------------------------
(* Inbound application messages, as the engine hands them to fromApp:      *)
(* MsgType (35), MsgSeqNum (34, here n) and the body fields by tag.        *)

OrdStatuses == {"0", "2"}                 \* OrderStatus.NEW, OrderStatus.FILLED

\* ids the counterparty echoes in its responses
InIds == {"a", "get", "u1", "7"}

\* the tag in which each response type carries its request id (FIX 4.4 and
\* the counterparty's custom messages)
IdTag(mt) ==
    CASE mt \in {"W", "Y"} -> 262
      [] mt \in {"UASR", "UASJ"} -> 20020
      [] mt = "y" -> 320
      [] mt \in {"AQ", "AE"} -> 568
      [] mt \in {"UTMR", "UTMJ"} -> 20050

IdTypes == {"W", "Y", "UASR", "UASJ", "y", "AQ", "AE", "UTMR", "UTMJ"}
OrderTypes == {"8", "9"}
RejectTypes == {"3", "j"}
UnknownTypes == {"X"}

InMsgs(n) ==
    {[mt |-> t, f |-> (IdTag(t) :> id), n |-> n] : t \in IdTypes, id \in InIds}
    \cup {[mt |-> t, f |-> (11 :> cl @@ 37 :> oid @@ 39 :> st), n |-> n] :
            t \in OrderTypes, cl \in ClOrdIds, oid \in OrderIds, st \in OrdStatuses}
    \cup {[mt |-> t, f |-> (45 :> "1"), n |-> n] : t \in RejectTypes \cup UnknownTypes}

\* the model object built from a message: its class and the fields it read
Item(cls, message) == [cls |-> cls, msg |-> message]

\* <object>.status = ...; <object>.exante_id = ... on what get returned
set_status(c, name, st, ex_id) ==
    LET g == collector_get(c, name) IN
    IF g.exc # "none" THEN g
    ELSE IF g.ref = NoneV \/ g.ref \notin DOMAIN c \/ c[g.ref].kind = "dict"
         THEN Res(c, "AttributeError", g.ref)
         ELSE Res([c EXCEPT ![g.ref].status = st, ![g.ref].exante_id = ex_id], "none", g.ref)

\* FixAdapter.fromApp, the branch for "8" and "9"
fromApp_order(c, message, cls) ==
    LET t == Item(cls, message)
        ClOrdID == message.f[11]
        OrderID == message.f[37]
        OrdStatus == message.f[39]
        b == bound_cl_ord_id(c, ClOrdID, OrderID)
    IN  IF b.exc # "none" THEN b
        ELSE LET c1 == IF ~hasattr(b.c, OrderID)
                       THEN register(b.c, OrderID, "Order", md_queue_l)
                       ELSE b.c
                 p == get_put(c1, OrderID, t)
             IN  IF p.exc # "none" THEN p
                 ELSE set_status(p.c, OrderID, OrdStatus, OrderID)

\* FixAdapter.fromApp on a connected session: the dispatch on MsgType
fromApp_dispatch(c, message) ==
    LET msg_type == message.mt IN
    CASE msg_type = "3" -> rejects_put(c, Item("Reject", message))
      [] msg_type = "j" -> rejects_put(c, Item("BusinessReject", message))
      [] msg_type = "W" -> get_put(c, message.f[262], Item("MDSnapshot", message))
      [] msg_type = "Y" -> get_put(c, message.f[262], Item("MDReject", message))
      [] msg_type = "8" -> fromApp_order(c, message, "ExecutionReport")
      [] msg_type = "9" -> fromApp_order(c, message, "OrderCancelReject")
      [] msg_type = "UASR" -> get_put(c, message.f[20020], Item("AccSumResponse", message))
      [] msg_type = "UASJ" -> get_put(c, message.f[20020], Item("AccSumRej", message))
      [] msg_type = "y" -> get_put(c, message.f[320], Item("SecurityList", message))
      [] msg_type = "AQ" -> get_put(c, message.f[568], Item("TradeCaptureAck", message))
      [] msg_type = "AE" -> get_put(c, message.f[568], Item("TradeCapture", message))
      [] msg_type = "UTMR" -> get_put(c, message.f[20050], Item("TradeMargin", message))
      [] msg_type = "UTMJ" -> get_put(c, message.f[20050], Item("TradeMarginReject", message))
      [] OTHER -> Res(c, "none", NoneV)        \* warnings.warn: unknown type

---------------------------------------------------------------------------
(* Engine callbacks on the adapter *)

collectorVars == <<attrs, md_queue_l>>
counterVars == <<nin, nreq, nuuid, budget>>

\* a further call fits the behaviour's budget
MayCall == nreq + nin < budget
subVars == <<sub, arrived, lastGot>>

\* an onCreate that files the Status under the sender's CompID alone
onCreate_bySender(session_id) ==
    /\ engine' = [engine EXCEPT ![session_id] = "created"]
    /\ LET stat == Status(session_id) IN
       status' = [k \in DOMAIN status \cup {session_id.SenderCompID} |->
                    IF k = session_id.SenderCompID THEN stat ELSE status[k]]
    /\ UNCHANGED <<collectorVars, last, counterVars, subVars, thread, robot>>

\* FixAdapter.onCreate: the engine has made the session; file a new Status
onCreate(session_id) ==
    /\ engine' = [engine EXCEPT ![session_id] = "created"]
    /\ LET stat == Status(session_id) IN
       status' = [k \in DOMAIN status \cup {uid(stat)} |->
                    IF k = uid(stat) THEN stat ELSE status[k]]
    /\ UNCHANGED <<collectorVars, last, counterVars, subVars, thread, robot>>

\* FixAdapter.onLogon: self.status[session_id.toString()].login()
onLogon(session_id) ==
    /\ engine[session_id] # "absent"
    /\ engine' = [engine EXCEPT ![session_id] = "loggedOn"]
    /\ LET k == toString(session_id) IN
       IF k \in DOMAIN status
       THEN status' = [status EXCEPT ![k] = login(@)]
       ELSE status' = status                       \* KeyError
    /\ UNCHANGED <<collectorVars, last, counterVars, subVars, thread, robot>>

\* FixAdapter.onLogout: self.status[session_id.toString()].logout -- the
\* method is looked up and not called, so the Status is left as it was
onLogout(session_id) ==
    /\ engine[session_id] # "absent"
    /\ engine' = [engine EXCEPT ![session_id] = "loggedOut"]
    /\ status' = status
    /\ UNCHANGED <<collectorVars, last, counterVars, subVars, thread, robot>>

\* a fromApp that dispatches without asking whether the session is logged on
fromApp_ungated(message, session_id) ==
    /\ engine[session_id] # "absent"
    /\ MayCall
    /\ message.n = nin + 1
    /\ LET r == fromApp_dispatch(attrs, message)
       IN  /\ attrs' = r.c
           /\ last' = Outcome("fromApp", _iscon(session_id), NoneV, r.exc, message)
    /\ nin' = nin + 1
    /\ UNCHANGED <<engine, status, md_queue_l, nreq, nuuid, budget, subVars, thread, robot>>

\* FixAdapter.fromApp
fromApp(message, session_id) ==
    /\ engine[session_id] # "absent"
    /\ MayCall
    /\ message.n = nin + 1
    /\ LET r == IF _iscon(session_id)
                THEN fromApp_dispatch(attrs, message)
                ELSE Res(attrs, "none", NoneV)
       IN  /\ attrs' = r.c
           /\ last' = Outcome("fromApp", _iscon(session_id), NoneV, r.exc, message)
    /\ nin' = nin + 1
    /\ UNCHANGED <<engine, status, md_queue_l, nreq, nuuid, budget, subVars, thread, robot>>

---------------------------------------------------------------------------
(* Request methods.  Each builds a message and hands it to                 *)
(* fx.Session.sendToTarget(msg, session_id); `last.msg` is that message.   *)

\* input universes of the request methods
MdTypeLists == {<<"0", "1">>}             \* md_type: [MDEntryType.Bid, MDEntryType.Offer]
Passwords == {NoneV, "pw"}
OptReqIds == ReqIds \cup {NoneV}
OptOtherIds == {"a", NoneV}               \* ids given to the other id-taking requests
OptClOrdIds == ClOrdIds \cup {NoneV}
OptAccSumIds == AccSumIds \cup {0}        \* 0 (like None) is falsy

\* the message handed to sendToTarget: header MsgType, target session,
\* body fields by tag, repeating groups in the order added
OutMsg(mt, session_id, f, g) == [mt |-> mt, ses |-> toString(session_id), f |-> f, g |-> g]

\* str(uuid4().hex): a value never drawn before
uuid4 == UuidIds[nuuid + 1]

\* a request method called while its session is not logged on: the `if
\* self._iscon(session_id)` body is skipped and the method returns None
NotConnected(op, session_id) ==
    /\ MayCall
    /\ last' = Outcome(op, FALSE, NoneV, "none", NoMsg)
    /\ nreq' = nreq + 1
    /\ UNCHANGED <<engine, status, collectorVars, nin, nuuid, budget, subVars, thread, robot>>

\* the end of a request method's body: r is the collector afterwards with
\* the exception that escaped (if any), val the value returned, msg the
\* message handed to sendToTarget (NoMsg if an exception came first)
Done(op, session_id, r, val, msg, drew) ==
    /\ MayCall
    /\ attrs' = r.c
    /\ last' = Outcome(op, TRUE, IF r.exc = "none" THEN val ELSE NoneV, r.exc, msg)
    /\ nreq' = nreq + 1
    /\ nuuid' = IF drew THEN nuuid + 1 ELSE nuuid
    /\ UNCHANGED <<engine, status, md_queue_l, nin, budget, subVars, thread, robot>>

\* FixAdapter.logon_req: no _iscon gate; sendToTarget raises SessionNotFound
\* when the engine has no such session
logon_req(session_id, reset_mes_seq_num, cancel_on_disconnect, pwd) ==
    LET f == (554 :> pwd) @@ (141 :> reset_mes_seq_num)
             @@ (IF cancel_on_disconnect THEN (10001 :> TRUE) ELSE <<>>)
        found == engine[session_id] # "absent"
    IN  /\ MayCall
        /\ last' = Outcome("logon_req", _iscon(session_id), NoneV,
                           IF found THEN "none" ELSE "SessionNotFound",
                           IF found THEN OutMsg("A", session_id, f, <<>>) ELSE NoMsg)
        /\ nreq' = nreq + 1
        /\ UNCHANGED <<engine, status, collectorVars, nin, nuuid, budget, subVars, thread, robot>>

\* FixAdapter.logout_req
logout_req(session_id, reason) ==
    IF _iscon(session_id)
    THEN Done("logout_req", session_id, Res(attrs, "none", NoneV), NoneV,
              OutMsg("5", session_id, IF reason # NoneV THEN (58 :> reason) ELSE <<>>, <<>>),
              FALSE)
    ELSE NotConnected("logout_req", session_id)

\* FixAdapter.resend_req
resend_req(session_id, begin_seq_no, end_seq_no) ==
    IF _iscon(session_id)
    THEN Done("resend_req", session_id, Res(attrs, "none", NoneV), NoneV,
              OutMsg("2", session_id, (7 :> begin_seq_no) @@ (16 :> end_seq_no), <<>>), FALSE)
    ELSE NotConnected("resend_req", session_id)

\* FixAdapter.test_req
test_req(session_id, test_req_id) ==
    IF _iscon(session_id)
    THEN Done("test_req", session_id, Res(attrs, "none", NoneV), NoneV,
              OutMsg("1", session_id, (112 :> str(test_req_id)), <<>>), FALSE)
    ELSE NotConnected("test_req", session_id)

\* FixAdapter.md_req: register (sub) or deregister (not sub) comes before
\* the send, so an exception escaping deregister leaves nothing sent
md_req(session_id, symbol, md_type, md_req_id, sub_, md_depth) ==
    IF _iscon(session_id)
    THEN LET drew == md_req_id = NoneV
             id == IF drew THEN uuid4 ELSE md_req_id
             r == IF sub_ THEN Res(register(attrs, id, "MD", md_queue_l), "none", NoneV)
                  ELSE deregister(attrs, id)
             f == (262 :> id) @@ (263 :> IF sub_ THEN "1" ELSE "2")
                  @@ (IF sub_ THEN (265 :> 0) ELSE <<>>)
                  @@ (264 :> md_depth) @@ (267 :> Len(md_type))
             g == <<[no |-> 146, f |-> (55 :> symbol)]>>
                  \o [i \in 1..Len(md_type) |-> [no |-> 267, f |-> (269 :> md_type[i])]]
         IN  Done("md_req", session_id, r, id,
                  IF r.exc = "none" THEN OutMsg("V", session_id, f, g) ELSE NoMsg, drew)
    ELSE NotConnected("md_req", session_id)

\* the tail shared by the four order requests: sendToTarget, then
\* self.collector.bound_cl_ord_id(client_order_id)
order_tail(op, session_id, mt, f, client_order_id, val, drew) ==
    Done(op, session_id, bound_cl_ord_id(attrs, client_order_id, NoneV), val,
         OutMsg(mt, session_id, f, <<>>), drew)

\* FixAdapter.new_order_req
new_order_req(session_id, symbol, client_order_id) ==
    IF _iscon(session_id)
    THEN LET drew == client_order_id = NoneV
             id == IF drew THEN uuid4 ELSE client_order_id
         IN  order_tail("new_order_req", session_id, "D", (55 :> symbol) @@ (11 :> id),
                        id, id, drew)
    ELSE NotConnected("new_order_req", session_id)

\* FixAdapter.cancel_req
cancel_req(session_id, orig_client_order_id, symbol, client_order_id) ==
    IF _iscon(session_id)
    THEN LET drew == client_order_id = NoneV
             id == IF drew THEN uuid4 ELSE client_order_id
         IN  order_tail("cancel_req", session_id, "F",
                        (55 :> symbol) @@ (41 :> orig_client_order_id) @@ (11 :> id),
                        id, id, drew)
    ELSE NotConnected("cancel_req", session_id)

\* FixAdapter.order_status_req: returns None also when it has sent
order_status_req(session_id, client_order_id, symbol) ==
    IF _iscon(session_id)
    THEN order_tail("order_status_req", session_id, "H",
                    (55 :> symbol) @@ (11 :> client_order_id),
                    client_order_id, NoneV, FALSE)
    ELSE NotConnected("order_status_req", session_id)

\* FixAdapter.order_replace_req
order_replace_req(session_id, orig_client_order_id, symbol, client_order_id) ==
    IF _iscon(session_id)
    THEN LET drew == client_order_id = NoneV
             id == IF drew THEN uuid4 ELSE client_order_id
         IN  order_tail("order_replace_req", session_id, "G",
                        (55 :> symbol) @@ (11 :> id) @@ (41 :> orig_client_order_id),
                        id, id, drew)
    ELSE NotConnected("order_replace_req", session_id)

\* the tail shared by the requests that send and then register the queue
\* their responses go to
register_tail(op, session_id, mt, f, g, name, obj_type, drew) ==
    Done(op, session_id, Res(register(attrs, name, obj_type, md_queue_l), "none", NoneV),
         name, OutMsg(mt, session_id, f, g), drew)

\* FixAdapter.account_summary_req: the default id is the time in whole seconds
account_summary_req(session_id, acc_sum_id) ==
    IF _iscon(session_id)
    THEN LET id == IF acc_sum_id = 0 THEN Clock ELSE acc_sum_id
         IN  register_tail("account_summary_req", session_id, "UASQ", (20020 :> id), <<>>,
                           str(id), "AccSum", FALSE)
    ELSE NotConnected("account_summary_req", session_id)

\* FixAdapter.order_mass_status_req: registers nothing
order_mass_status_req(session_id, mosr_id) ==
    IF _iscon(session_id)
    THEN LET drew == mosr_id = NoneV
             id == IF drew THEN uuid4 ELSE mosr_id
         IN  Done("order_mass_status_req", session_id, Res(attrs, "none", NoneV), id,
                  OutMsg("AF", session_id, (584 :> id) @@ (585 :> 7), <<>>), drew)
    ELSE NotConnected("order_mass_status_req", session_id)

\* FixAdapter.security_list_req
security_list_req(session_id, sec_list_req_id) ==
    IF _iscon(session_id)
    THEN LET drew == sec_list_req_id = NoneV
             id == IF drew THEN uuid4 ELSE sec_list_req_id
         IN  register_tail("security_list_req", session_id, "x",
                           (320 :> id) @@ (559 :> 4), <<>>, id, "SecList", drew)
    ELSE NotConnected("security_list_req", session_id)

\* FixAdapter.trades_capture_req
trades_capture_req(session_id, start_date, stop_date, trade_req_id) ==
    IF _iscon(session_id)
    THEN LET drew == trade_req_id = NoneV
             id == IF drew THEN uuid4 ELSE trade_req_id
             g == <<[no |-> 580, f |-> (75 :> start_date)]>>
                  \o (IF stop_date # NoneV THEN <<[no |-> 580, f |-> (75 :> stop_date)]>>
                      ELSE <<>>)
         IN  register_tail("trades_capture_req", session_id, "AD",
                           (568 :> id) @@ (569 :> 0)
                           @@ (580 :> IF stop_date # NoneV THEN 2 ELSE 1),
                           g, id, "TradesList", drew)
    ELSE NotConnected("trades_capture_req", session_id)

\* FixAdapter.trades_margin_req
trades_margin_req(session_id, symbol, trade_margin_id) ==
    IF _iscon(session_id)
    THEN LET drew == trade_margin_id = NoneV
             id == IF drew THEN uuid4 ELSE trade_margin_id
         IN  register_tail("trades_margin_req", session_id, "UTMQ",
                           (55 :> symbol) @@ (20050 :> id), <<>>, id, "MarginList", drew)
    ELSE NotConnected("trades_margin_req", session_id)

\* the caller drops a queue itself: collector.deregister(name); last.val
\* keeps the name it was called with
collector_deregister(name) ==
    /\ MayCall
    /\ LET r == deregister(attrs, name) IN
       /\ attrs' = r.c
       /\ last' = Outcome("deregister", FALSE, name, r.exc, NoMsg)
    /\ nreq' = nreq + 1
    /\ UNCHANGED <<engine, status, md_queue_l, nin, nuuid, budget, subVars, thread, robot>>

---------------------------------------------------------------------------
(* A stand-alone MDSub, put into and read as a consumer reads it *)

\* subscription_queue.put(item): MDSub.put
sub_put(v) ==
    /\ Len(arrived) < MaxPuts
    /\ LET item == [n |-> Len(arrived) + 1, v |-> v] IN
       /\ sub' = MDSubPut(sub, item)
       /\ arrived' = Append(arrived, item)
    /\ UNCHANGED <<engine, status, collectorVars, last, counterVars, lastGot, thread, robot>>

\* subscription_queue.get(False): Queue.get, the head of the deque (raises
\* Empty, changing nothing, when there is none)
sub_get ==
    /\ Len(sub.q) > 0
    /\ sub' = [sub EXCEPT !.q = Tail(@)]
    /\ lastGot' = Head(sub.q).n
    /\ UNCHANGED <<engine, status, collectorVars, last, counterVars, arrived, thread, robot>>

---------------------------------------------------------------------------
(* Specifications *)

RobotQueueLen == 1     \* Collector(1), the queue length the robot runs with

Symbols == {"AAPL.NASDAQ"}
Dates == {"20200101"}

\* FixAdapter.__init__ with a Collector(RobotQueueLen); the engine has made
\* no session yet
Init ==
    /\ engine = [s \in Sessions |-> "absent"]
    /\ status = [k \in {} |-> NoneV]
    /\ attrs = CollectorInit
    /\ md_queue_l = RobotQueueLen
    /\ last = Outcome("init", FALSE, NoneV, "none", NoMsg)
    /\ nin = 0
    /\ nreq = 0
    /\ nuuid = 0
    /\ budget = MaxCalls
    /\ sub = MDSub(RobotQueueLen)
    /\ arrived = <<>>
    /\ lastGot = 0
    /\ thread = Idle
    /\ robot = NotStarted

Next ==
    \/ \E s \in Sessions : onCreate(s)
    \/ \E s \in Sessions : onLogon(s)
    \/ \E s \in Sessions : onLogout(s)
    \/ \E s \in Sessions : \E m \in InMsgs(nin + 1) : fromApp(m, s)
    \/ \E s \in Sessions : \E reset \in {FALSE} : \E cod \in BOOLEAN : \E pwd \in Passwords :
          logon_req(s, reset, cod, pwd)
    \/ \E s \in Sessions : \E reason \in {NoneV} : logout_req(s, reason)
    \/ \E s \in Sessions : resend_req(s, 1, 2)
    \/ \E s \in Sessions : test_req(s, 7)
    \/ \E s \in Sessions : \E sym \in Symbols : \E t \in MdTypeLists : \E id \in OptReqIds :
          \E sub_ \in BOOLEAN : md_req(s, sym, t, id, sub_, 1)
    \/ \E s \in Sessions : \E sym \in Symbols : \E id \in OptClOrdIds :
          new_order_req(s, sym, id)
    \/ \E s \in Sessions : \E sym \in Symbols : \E orig \in ClOrdIds : \E id \in OptClOrdIds :
          cancel_req(s, orig, sym, id)
    \/ \E s \in Sessions : \E sym \in Symbols : \E id \in ClOrdIds :
          order_status_req(s, id, sym)
    \/ \E s \in Sessions : \E sym \in Symbols : \E orig \in ClOrdIds : \E id \in OptClOrdIds :
          order_replace_req(s, orig, sym, id)
    \/ \E s \in Sessions : \E id \in OptAccSumIds : account_summary_req(s, id)
    \/ \E s \in Sessions : \E id \in OptOtherIds : order_mass_status_req(s, id)
    \/ \E s \in Sessions : \E id \in OptOtherIds : security_list_req(s, id)
    \/ \E s \in Sessions : \E d1 \in Dates : \E d2 \in Dates \cup {NoneV} :
          \E id \in OptOtherIds : trades_capture_req(s, d1, d2, id)
    \/ \E s \in Sessions : \E sym \in Symbols : \E id \in OptOtherIds :
          trades_margin_req(s, sym, id)
    \/ \E name \in ReqIds \cup ClOrdIds : collector_deregister(name)

Spec == Init /\ [][Next]_vars

\* an MDSub of any maxsize, 0 (unbounded) included, put into and read
InitMDSub ==
    /\ engine = [s \in Sessions |-> "absent"]
    /\ status = [k \in {} |-> NoneV]
    /\ attrs = CollectorInit
    /\ md_queue_l \in 0..MaxSize
    /\ last = Outcome("init", FALSE, NoneV, "none", NoMsg)
    /\ nin = 0
    /\ nreq = 0
    /\ nuuid = 0
    /\ budget = 0
    /\ sub = MDSub(md_queue_l)
    /\ arrived = <<>>
    /\ lastGot = 0
    /\ thread = Idle
    /\ robot = NotStarted

NextMDSub ==
    \/ \E v \in {"bid", "offer"} : sub_put(v)
    \/ sub_get

SpecMDSub == InitMDSub /\ [][NextMDSub]_vars

\* the session lifecycle alone: the engine's callbacks and the two
\* requests that ask for a logon or a logout
InitSession ==
    /\ engine = [s \in Sessions |-> "absent"]
    /\ status = [k \in {} |-> NoneV]
    /\ attrs = CollectorInit
    /\ md_queue_l = RobotQueueLen
    /\ last = Outcome("init", FALSE, NoneV, "none", NoMsg)
    /\ nin = 0
    /\ nreq = 0
    /\ nuuid = 0
    /\ budget = MaxSessionCalls
    /\ sub = MDSub(RobotQueueLen)
    /\ arrived = <<>>
    /\ lastGot = 0
    /\ thread = Idle
    /\ robot = NotStarted

NextSession ==
    \/ \E s \in Sessions : onCreate(s)
    \/ \E s \in Sessions : onLogon(s)
    \/ \E s \in Sessions : onLogout(s)
    \/ \E s \in Sessions : \E cod \in BOOLEAN : \E pwd \in Passwords :
          logon_req(s, FALSE, cod, pwd)
    \/ \E s \in Sessions : \E reason \in {NoneV, "bye"} : logout_req(s, reason)

SpecSession == InitSession /\ [][NextSession]_vars

\* market data with orders placed beside it: ids a caller numbers its
\* requests with ("a" serves as a request id and as a client order id)
FeedIds == {"a", "u1"}

FeedMsgs(n) ==
    {m \in InMsgs(n) :
        \/ m.mt \in {"W", "Y"} /\ m.f[262] \in FeedIds
        \/ m.mt \in UnknownTypes}

InitFeed ==
    /\ engine = [s \in Sessions |-> "absent"]
    /\ status = [k \in {} |-> NoneV]
    /\ attrs = CollectorInit
    /\ md_queue_l = RobotQueueLen
    /\ last = Outcome("init", FALSE, NoneV, "none", NoMsg)
    /\ nin = 0
    /\ nreq = 0
    /\ nuuid = 0
    /\ budget = MaxFeedCalls
    /\ sub = MDSub(RobotQueueLen)
    /\ arrived = <<>>
    /\ lastGot = 0
    /\ thread = Idle
    /\ robot = NotStarted

NextFeed ==
    \/ \E s \in Sessions : onCreate(s)
    \/ \E s \in Sessions : onLogon(s)
    \/ \E s \in Sessions : onLogout(s)
    \/ \E s \in Sessions : \E m \in FeedMsgs(nin + 1) : fromApp(m, s)
    \/ \E s \in Sessions : \E sym \in Symbols : \E t \in MdTypeLists : \E id \in {"a", NoneV} :
          \E sub_ \in BOOLEAN : md_req(s, sym, t, id, sub_, 1)
    \/ \E s \in Sessions : \E sym \in Symbols : new_order_req(s, sym, "a")

SpecFeed == InitFeed /\ [][NextFeed]_vars

---------------------------------------------------------------------------
(* Properties *)

Created == {s \in Sessions : engine[s] # "absent"}

QueueKinds == {"MDSub", "Queue", "OrderSeq"}

IsQueue(c, name) == name \in DOMAIN c /\ c[name].kind \in QueueKinds

Suffix(seq, k) == SubSeq(seq, Len(seq) - k + 1, Len(seq))

Min(a, b) == IF a < b THEN a ELSE b

\* the request methods for orders, market data and account data
RequestMethods ==
    {"md_req", "new_order_req", "cancel_req", "order_status_req", "order_replace_req",
     "order_mass_status_req", "account_summary_req", "security_list_req",
     "trades_capture_req", "trades_margin_req"}

\* C1: a request on a session that is not logged on fails with NotConnected,
\* reported to the caller, and hands no message to the engine.
ClaimC1 ==
    (last.op \in RequestMethods /\ ~last.con)
        => (last.exc = "NotConnected" /\ last.msg = NoMsg)

\* C2: once onLogout has run for a session its Status reports not logged
\* on, until the next onLogon; after onLogon it reports logged on.
ClaimC2 ==
    \A s \in Created :
        /\ engine[s] = "loggedOut" => ~logened(status[toString(s)])
        /\ engine[s] = "loggedOn" => logened(status[toString(s)])

\* C7: an MDSub of maxsize N > 0 never holds more than N items, and what it
\* holds are, in arrival order, the most recent items put since the item
\* last taken out: the last min(N, number put since) of them.
TheoremC7 ==
    sub.maxsize > 0 =>
        /\ Len(sub.q) <= sub.maxsize
        /\ sub.q = Suffix(arrived, Min(sub.maxsize, Len(arrived) - lastGot))

\* C7's case: the queue is full, items have been taken out, and since then
\* more items arrived than fit
WitnessC7 ==
    /\ sub.maxsize > 0
    /\ Len(sub.q) = sub.maxsize
    /\ lastGot > 0
    /\ Len(arrived) - lastGot > sub.maxsize

\* the request id a response carries, by the tag of its type
ReqIdOf(m) == IF m.mt \in OrderTypes THEN m.f[37] ELSE m.f[IdTag(m.mt)]

\* C8: on a logged-on session fromApp appends a message of a recognised
\* type to the queue registered under its request id and changes no other
\* queue; a message of an unrecognised type changes nothing in the collector.
C8Step ==
    LET m == last'.msg IN
    (nin' = nin + 1 /\ last'.con) =>
        IF m.mt \in IdTypes \cup OrderTypes
        THEN (m.mt \in IdTypes => IsQueue(attrs, ReqIdOf(m))) =>
                /\ IsQueue(attrs', ReqIdOf(m))
                /\ Len(attrs'[ReqIdOf(m)].q) > 0
                /\ attrs'[ReqIdOf(m)].q[Len(attrs'[ReqIdOf(m)].q)].msg = m
                /\ \A k \in (DOMAIN attrs \cup DOMAIN attrs') \ {ReqIdOf(m)} :
                      (IsQueue(attrs, k) \/ IsQueue(attrs', k)) =>
                          /\ k \in DOMAIN attrs
                          /\ k \in DOMAIN attrs'
                          /\ attrs'[k] = attrs[k]
        ELSE m.mt \in UnknownTypes => attrs' = attrs

ClaimC8 == [][C8Step]_vars

\* C9: whatever identifiers are registered or deregistered, the rejects
\* queue and the client-order-id map made at construction are still there.
ClaimC9 ==
    /\ "rejects" \in DOMAIN attrs
    /\ attrs["rejects"].kind = "Queue"
    /\ "_ord_map" \in DOMAIN attrs
    /\ attrs["_ord_map"].kind = "dict"

\* C10: the status map holds exactly one Status per created session, under
\* that session's id string, and the session id a Status holds never changes.
OneStatusPerSession ==
    /\ DOMAIN status = {toString(s) : s \in Created}
    /\ Cardinality(DOMAIN status) = Cardinality(Created)
    /\ \A s \in Created : status[toString(s)].ses = s

SessionIdKept ==
    \A k \in DOMAIN status : k \in DOMAIN status' /\ status'[k].ses = status[k].ses

TheoremC10 == []OneStatusPerSession /\ [][SessionIdKept]_vars

\* C10's case: every session created, one logged on, another logged out
WitnessC10 ==
    /\ Created = Sessions
    /\ \E s \in Sessions : engine[s] = "loggedOn"
    /\ \E s \in Sessions : engine[s] = "loggedOut"

---------------------------------------------------------------------------
(* Admin messages on their way out: FixAdapter.toAdmin *)

MaxAdminCalls == 1     \* request calls in a behaviour of SpecAdmin

\* the fx.SessionSettings the adapter was built with, by session id string:
\* both sessions have a Password, one of them also CancelOnDisconnect
session_settings ==
    [k \in {toString(s) : s \in Sessions} |->
        IF k = "FIX.4.4:CLIENT->FEED"
        THEN ("Password" :> "feedpw") @@ ("CancelOnDisconnect" :> "Y")
        ELSE ("Password" :> "tradepw")]

\* messages the engine passes through toAdmin before sending: a Logon it
\* built itself (no Password), a Logon from logon_req (Password as the
\* caller gave it), Heartbeat, TestRequest, ResendRequest, Logout
AdminMsgs(session_id) ==
    {OutMsg("A", session_id, (98 :> 0) @@ (108 :> 30), <<>>)}
    \cup {OutMsg("A", session_id, (554 :> pwd) @@ (141 :> FALSE), <<>>) : pwd \in Passwords}
    \cup {OutMsg("A", session_id, (554 :> pwd) @@ (141 :> FALSE) @@ (10001 :> TRUE), <<>>) :
            pwd \in Passwords}
    \cup {OutMsg(t, session_id, (34 :> 1), <<>>) : t \in {"0", "1", "2", "5"}}

\* message.setField(field): the field replaces one of the same tag
setField(message, tag, value) ==
    [message EXCEPT !.f = [t \in DOMAIN message.f \cup {tag} |->
                              IF t = tag THEN value ELSE message.f[t]]]

\* a toAdmin that touches the Logon only while the session is connected
toAdmin_ifConnected(message, session_id, bool_ok) ==
    /\ engine[session_id] # "absent"
    /\ last' = Outcome("toAdmin", _iscon(session_id), message, "none",
                       IF message.mt = "A" /\ _iscon(session_id)
                       THEN setField(message, 554, session_settings[toString(session_id)]["Password"])
                       ELSE message)
    /\ UNCHANGED <<engine, status, collectorVars, counterVars, subVars, thread, robot>>

\* FixAdapter.toAdmin.  last.val is the message as it came in, last.msg the
\* message as it goes on.  bool_ok: whether fx.BoolField accepts the string
\* read from the settings (the binding decides); if not, the exception
\* escapes after the Password has been set on the message.
toAdmin(message, session_id, bool_ok) ==
    /\ engine[session_id] # "absent"
    /\ LET cfg == session_settings[toString(session_id)]
           withPwd == setField(message, 554, cfg["Password"])
       IN  last' =
             IF message.mt = "A"
             THEN IF "Password" \notin DOMAIN cfg
                  THEN Outcome("toAdmin", _iscon(session_id), message, "ConfigError", message)
                  ELSE IF "CancelOnDisconnect" \notin DOMAIN cfg       \* ConfigError, caught
                  THEN Outcome("toAdmin", _iscon(session_id), message, "none", withPwd)
                  ELSE IF bool_ok
                  THEN Outcome("toAdmin", _iscon(session_id), message, "none",
                               setField(withPwd, 10001, cfg["CancelOnDisconnect"]))
                  ELSE Outcome("toAdmin", _iscon(session_id), message, "TypeError", withPwd)
             ELSE Outcome("toAdmin", _iscon(session_id), message, "none", message)  \* logged only
    /\ UNCHANGED <<engine, status, collectorVars, counterVars, subVars, thread, robot>>

InitAdmin ==
    /\ engine = [s \in Sessions |-> "absent"]
    /\ status = [k \in {} |-> NoneV]
    /\ attrs = CollectorInit
    /\ md_queue_l = RobotQueueLen
    /\ last = Outcome("init", FALSE, NoneV, "none", NoMsg)
    /\ nin = 0
    /\ nreq = 0
    /\ nuuid = 0
    /\ budget = MaxAdminCalls
    /\ sub = MDSub(RobotQueueLen)
    /\ arrived = <<>>
    /\ lastGot = 0
    /\ thread = Idle
    /\ robot = NotStarted

NextAdmin ==
    \/ \E s \in Sessions : onCreate(s)
    \/ \E s \in Sessions : onLogon(s)
    \/ \E s \in Sessions : onLogout(s)
    \/ \E s \in Sessions : \E cod \in BOOLEAN : \E pwd \in Passwords :
          logon_req(s, FALSE, cod, pwd)
    \/ \E s \in Sessions : \E m \in AdminMsgs(s) : \E ok \in BOOLEAN : toAdmin(m, s, ok)

SpecAdmin == InitAdmin /\ [][NextAdmin]_vars

\* C11: a Logon leaves toAdmin carrying the Password of its session's
\* settings, connected or not and whatever Password it came in with; a
\* message of any other type leaves toAdmin as it came in.
TheoremC11 ==
    last.op = "toAdmin" =>
        IF last.val.mt = "A"
        THEN /\ 554 \in DOMAIN last.msg.f
             /\ last.msg.f[554] = session_settings[last.val.ses]["Password"]
        ELSE last.msg = last.val

\* C11's case: a Logon that logon_req gave another password went through
\* toAdmin while its session was not logged on
WitnessC11 ==
    /\ last.op = "toAdmin"
    /\ ~last.con
    /\ last.val.mt = "A"
    /\ 554 \in DOMAIN last.val.f
    /\ last.val.f[554] = "pw"
    /\ last.msg.f[554] # "pw"

---------------------------------------------------------------------------
(* Orders: bindings of client order ids to exchange order ids *)

\* the items of a dict left after dropping every key bound to ex_oid
WithoutValue(m, ex_oid) == SelectSeq(m, LAMBDA e : e.v # ex_oid)

\* C12: deregister(c) for a client order id c in the order map returns
\* without raising, removes every binding to c's exchange order and that
\* order's queue, and leaves every other binding and queue as it was.
C12Step ==
    (/\ nreq' = nreq + 1
     /\ last'.op = "deregister"
     /\ OrdMapIsDict(attrs)
     /\ last'.val \in Keys(attrs["_ord_map"].map)) =>
        LET m == attrs["_ord_map"].map
            ex_oid == Lookup(m, last'.val)
        IN  /\ last'.exc = "none"
            /\ OrdMapIsDict(attrs')
            /\ attrs'["_ord_map"].map = WithoutValue(m, ex_oid)
            /\ ex_oid \notin DOMAIN attrs'
            /\ \A k \in DOMAIN attrs \ {ex_oid, "_ord_map"} :
                  k \in DOMAIN attrs' /\ attrs'[k] = attrs[k]

ClaimC12 == [][C12Step]_vars

---------------------------------------------------------------------------
(* Two threads.  The engine calls fromApp on its own thread while the      *)
(* caller's thread is inside a request method: between the statements of   *)
(* a request method, and between the test and the assignment of            *)
(* Collector.bound_cl_ord_id, a whole fromApp call can run.                *)

MaxThreadCalls == 3    \* calls in a behaviour of SpecThreads

\* where the thread stands after sendToTarget: the statement that comes
\* next (pc) with its arguments, and what the method will return (ret)
Rest(pc, name, obj_type, ret) == [pc |-> pc, name |-> name, obj_type |-> obj_type, ret |-> ret]

\* the first half of a request method: the message is built and handed to
\* sendToTarget
send_part(op, session_id, msg, rest) ==
    /\ _iscon(session_id)
    /\ thread = Idle
    /\ MayCall
    /\ last' = Outcome(op, TRUE, NoneV, "none", msg)
    /\ thread' = [pc |-> rest.pc, name |-> rest.name, obj_type |-> rest.obj_type,
                   ret |-> rest.ret, op |-> op, msg |-> msg]
    /\ nreq' = nreq + 1
    /\ UNCHANGED <<engine, status, collectorVars, nin, nuuid, budget, subVars, robot>>

\* new_order_req up to the call of bound_cl_ord_id(client_order_id)
new_order_req_send(session_id, symbol, client_order_id) ==
    send_part("new_order_req", session_id,
              OutMsg("D", session_id, (55 :> symbol) @@ (11 :> client_order_id), <<>>),
              Rest("bound_test", client_order_id, NoneV, client_order_id))

\* order_status_req up to the call of bound_cl_ord_id(client_order_id)
order_status_req_send(session_id, client_order_id, symbol) ==
    send_part("order_status_req", session_id,
              OutMsg("H", session_id, (55 :> symbol) @@ (11 :> client_order_id), <<>>),
              Rest("bound_test", client_order_id, NoneV, NoneV))

\* the method returns: its outcome is the caller's
returned == Outcome(thread.op, TRUE, thread.ret, "none", thread.msg)

\* bound_cl_ord_id(name) with ex_ord_id = None, the test:
\* `name not in self._ord_map or ex_ord_id`
bound_test ==
    /\ thread.pc = "bound_test"
    /\ OrdMapIsDict(attrs)
    /\ IF thread.name \notin Keys(attrs["_ord_map"].map)
       THEN thread' = [thread EXCEPT !.pc = "bound_assign"] /\ last' = last
       ELSE thread' = Idle /\ last' = returned
    /\ UNCHANGED <<engine, status, collectorVars, counterVars, subVars, robot>>

\* bound_cl_ord_id, the assignment: `self._ord_map[name] = ex_ord_id`
bound_assign ==
    /\ thread.pc = "bound_assign"
    /\ OrdMapIsDict(attrs)
    /\ attrs' = [attrs EXCEPT !["_ord_map"].map = Assign(@, thread.name, NoneV)]
    /\ last' = returned
    /\ thread' = Idle
    /\ UNCHANGED <<engine, status, md_queue_l, counterVars, subVars, robot>>

\* account_summary_req up to the call of collector.register
account_summary_req_send(session_id, acc_sum_id) ==
    LET id == IF acc_sum_id = 0 THEN Clock ELSE acc_sum_id IN
    send_part("account_summary_req", session_id,
              OutMsg("UASQ", session_id, (20020 :> id), <<>>),
              Rest("register", str(id), "AccSum", str(id)))

\* security_list_req up to the call of collector.register
security_list_req_send(session_id, sec_list_req_id) ==
    send_part("security_list_req", session_id,
              OutMsg("x", session_id, (320 :> sec_list_req_id) @@ (559 :> 4), <<>>),
              Rest("register", sec_list_req_id, "SecList", sec_list_req_id))

\* trades_capture_req up to the call of collector.register
trades_capture_req_send(session_id, start_date, trade_req_id) ==
    send_part("trades_capture_req", session_id,
              OutMsg("AD", session_id, (568 :> trade_req_id) @@ (569 :> 0) @@ (580 :> 1),
                     <<[no |-> 580, f |-> (75 :> start_date)]>>),
              Rest("register", trade_req_id, "TradesList", trade_req_id))

\* trades_margin_req up to the call of collector.register
trades_margin_req_send(session_id, symbol, trade_margin_id) ==
    send_part("trades_margin_req", session_id,
              OutMsg("UTMQ", session_id, (55 :> symbol) @@ (20050 :> trade_margin_id), <<>>),
              Rest("register", trade_margin_id, "MarginList", trade_margin_id))

\* the rest of those four: collector.register(id, type); return id
register_part ==
    /\ thread.pc = "register"
    /\ attrs' = register(attrs, thread.name, thread.obj_type, md_queue_l)
    /\ last' = returned
    /\ thread' = Idle
    /\ UNCHANGED <<engine, status, md_queue_l, counterVars, subVars, robot>>

\* what the counterparty answers in SpecThreads: reports for the order "c",
\* responses to the requests numbered "7" and "a"
ThreadMsgs(n) ==
    {m \in InMsgs(n) :
        \/ m.mt = "8" /\ m.f[11] = "c" /\ m.f[37] = "o1" /\ m.f[39] = "0"
        \/ m.mt \in {"UASR", "UASJ"} /\ m.f[20020] = "7"
        \/ m.mt \in {"y", "AQ", "AE", "UTMR", "UTMJ"} /\ m.f[IdTag(m.mt)] = "a"}

InitThreads ==
    /\ engine = [s \in Sessions |-> "absent"]
    /\ status = [k \in {} |-> NoneV]
    /\ attrs = CollectorInit
    /\ md_queue_l = RobotQueueLen
    /\ last = Outcome("init", FALSE, NoneV, "none", NoMsg)
    /\ nin = 0
    /\ nreq = 0
    /\ nuuid = 0
    /\ budget = MaxThreadCalls
    /\ sub = MDSub(RobotQueueLen)
    /\ arrived = <<>>
    /\ lastGot = 0
    /\ thread = Idle
    /\ robot = NotStarted

NextThreads ==
    \/ \E s \in Sessions : onCreate(s)
    \/ \E s \in Sessions : onLogon(s)
    \/ \E s \in Sessions : onLogout(s)
    \/ \E s \in Sessions : \E m \in ThreadMsgs(nin + 1) : fromApp(m, s)
    \/ \E s \in Sessions : \E sym \in Symbols : new_order_req_send(s, sym, "c")
    \/ \E s \in Sessions : \E sym \in Symbols : order_status_req_send(s, "c", sym)
    \/ bound_test
    \/ bound_assign
    \/ \E s \in Sessions : account_summary_req_send(s, 7)
    \/ \E s \in Sessions : security_list_req_send(s, "a")
    \/ \E s \in Sessions : \E d \in Dates : trades_capture_req_send(s, d, "a")
    \/ \E s \in Sessions : \E sym \in Symbols : trades_margin_req_send(s, sym, "a")
    \/ register_part

SpecThreads == InitThreads /\ [][NextThreads]_vars

\* C13: a client order id bound to an exchange order id stays bound to an
\* exchange order id in every step that is not a deregister, whatever the
\* interleaving of the two threads.
C13Step ==
    (OrdMapIsDict(attrs) /\ ~(nreq' = nreq + 1 /\ last'.op = "deregister")) =>
        \A c \in Keys(attrs["_ord_map"].map) :
            Lookup(attrs["_ord_map"].map, c) # NoneV =>
                /\ OrdMapIsDict(attrs')
                /\ c \in Keys(attrs'["_ord_map"].map)
                /\ Lookup(attrs'["_ord_map"].map, c) # NoneV

ClaimC13 == [][C13Step]_vars

\* the response types of the four requests that register a plain queue
RegisteredTypes == {"UASR", "UASJ", "y", "AQ", "AE", "UTMR", "UTMJ"}

\* a request with this id has been sent: its method is about to register
\* the queue, or has registered it
Requested(id) ==
    \/ thread.pc = "register" /\ thread.name = id
    \/ IsQueue(attrs, id)

\* C14: a response to account_summary_req, security_list_req,
\* trades_capture_req or trades_margin_req that reaches fromApp after the
\* request was sent is put into the queue registered under the request's
\* id, and fromApp does not fail, whatever the interleaving.
C14Step ==
    LET m == last'.msg IN
    (/\ nin' = nin + 1
     /\ last'.con
     /\ m.mt \in RegisteredTypes
     /\ Requested(ReqIdOf(m))) =>
        /\ last'.exc = "none"
        /\ IsQueue(attrs', ReqIdOf(m))
        /\ Len(attrs'[ReqIdOf(m)].q) > 0
        /\ attrs'[ReqIdOf(m)].q[Len(attrs'[ReqIdOf(m)].q)].msg = m

ClaimC14 == [][C14Step]_vars

---------------------------------------------------------------------------
(* The connectivity gate of the request methods *)

MaxGateCalls == 1      \* request calls in a behaviour of SpecGate

InitGate ==
    /\ engine = [s \in Sessions |-> "absent"]
    /\ status = [k \in {} |-> NoneV]
    /\ attrs = CollectorInit
    /\ md_queue_l = RobotQueueLen
    /\ last = Outcome("init", FALSE, NoneV, "none", NoMsg)
    /\ nin = 0
    /\ nreq = 0
    /\ nuuid = 0
    /\ budget = MaxGateCalls
    /\ sub = MDSub(RobotQueueLen)
    /\ arrived = <<>>
    /\ lastGot = 0
    /\ thread = Idle
    /\ robot = NotStarted

\* the callbacks and every request method
NextGate ==
    \/ \E s \in Sessions : onCreate(s)
    \/ \E s \in Sessions : onLogon(s)
    \/ \E s \in Sessions : onLogout(s)
    \/ \E s \in Sessions : \E cod \in BOOLEAN : \E pwd \in Passwords :
          logon_req(s, FALSE, cod, pwd)
    \/ \E s \in Sessions : \E reason \in {NoneV, "bye"} : logout_req(s, reason)
    \/ \E s \in Sessions : resend_req(s, 1, 2)
    \/ \E s \in Sessions : test_req(s, 7)
    \/ \E s \in Sessions : \E sym \in Symbols : \E t \in MdTypeLists : \E id \in OptReqIds :
          \E sub_ \in BOOLEAN : md_req(s, sym, t, id, sub_, 1)
    \/ \E s \in Sessions : \E sym \in Symbols : \E id \in OptClOrdIds :
          new_order_req(s, sym, id)
    \/ \E s \in Sessions : \E sym \in Symbols : \E orig \in ClOrdIds : \E id \in OptClOrdIds :
          cancel_req(s, orig, sym, id)
    \/ \E s \in Sessions : \E sym \in Symbols : \E id \in ClOrdIds :
          order_status_req(s, id, sym)
    \/ \E s \in Sessions : \E sym \in Symbols : \E orig \in ClOrdIds : \E id \in OptClOrdIds :
          order_replace_req(s, orig, sym, id)
    \/ \E s \in Sessions : \E id \in OptAccSumIds : account_summary_req(s, id)
    \/ \E s \in Sessions : \E id \in OptOtherIds : order_mass_status_req(s, id)
    \/ \E s \in Sessions : \E id \in OptOtherIds : security_list_req(s, id)
    \/ \E s \in Sessions : \E d1 \in Dates : \E d2 \in Dates \cup {NoneV} :
          \E id \in OptOtherIds : trades_capture_req(s, d1, d2, id)
    \/ \E s \in Sessions : \E sym \in Symbols : \E id \in OptOtherIds :
          trades_margin_req(s, sym, id)

SpecGate == InitGate /\ [][NextGate]_vars

\* every request method but logon_req
GatedRequests ==
    RequestMethods \cup {"logout_req", "resend_req", "test_req"}

\* the engine's session a sent message is addressed to is logged on
SentToLoggedOn(msg) ==
    \E s \in Sessions : toString(s) = msg.ses /\ engine[s] = "loggedOn"

\* C15: a request method other than logon_req called for a session that is
\* not logged on sends nothing, returns None, raises nothing and leaves the
\* collector as it was -- so whatever such a method sends goes to a
\* logged-on session; logon_req hands its Logon to the engine whether the
\* session is logged on or not, and never touches the collector.
C15Step ==
    /\ (nreq' = nreq + 1 /\ last'.op \in GatedRequests) =>
          /\ ~last'.con =>
                /\ last'.msg = NoMsg
                /\ last'.val = NoneV
                /\ last'.exc = "none"
                /\ attrs' = attrs
          /\ last'.con => \E s \in Sessions : engine[s] = "loggedOn"
          /\ last'.msg # NoMsg => SentToLoggedOn(last'.msg)
    /\ (nreq' = nreq + 1 /\ last'.op = "logon_req") =>
          /\ attrs' = attrs
          /\ last'.val = NoneV
          /\ \/ last'.msg.mt = "A" /\ last'.exc = "none"
             \/ last'.msg = NoMsg /\ last'.exc = "SessionNotFound"
          /\ (\A s \in Sessions : engine[s] # "absent") => last'.msg.mt = "A"

TheoremC15 == [][C15Step]_vars

\* C15's case: a gated request has been made while one session was logged
\* on and found its own session not logged on
WitnessC15 ==
    /\ last.op = "cancel_req"
    /\ ~last.con
    /\ \E s \in Sessions : engine[s] = "loggedOn"
    /\ \E s \in Sessions : engine[s] = "loggedOut"

---------------------------------------------------------------------------
(* The order flow: order requests, the reports that answer them, and the   *)
(* caller reading the collector                                            *)

MaxOrderCalls == 3     \* calls in a behaviour of SpecOrders

\* the session orders are sent on
TradeSession == CHOOSE s \in Sessions : s.TargetCompID = "TRADE"

\* the caller asks for a queue: collector.get(name); last.val is the
\* attribute whose object came back (None if none did)
caller_get(name) ==
    /\ MayCall
    /\ LET g == collector_get(attrs, name) IN
       last' = Outcome("get", FALSE, g.ref, g.exc, NoMsg)
    /\ nreq' = nreq + 1
    /\ UNCHANGED <<engine, status, collectorVars, nin, nuuid, budget, subVars, thread, robot>>

\* OrderSeq.get: queue.get(block=False), None when Empty is raised
OrderSeqGet(o) ==
    IF Len(o.q) = 0
    THEN [o |-> o, item |-> NoneV]
    ELSE [o |-> [o EXCEPT !.q = Tail(@)], item |-> Head(o.q)]

\* the caller reads an order's reports: collector.get(name).get(), for a
\* name that resolves to an OrderSeq
order_get(name) ==
    /\ MayCall
    /\ LET g == collector_get(attrs, name) IN
       /\ g.exc = "none"
       /\ g.ref \in DOMAIN attrs
       /\ attrs[g.ref].kind = "OrderSeq"
       /\ LET r == OrderSeqGet(attrs[g.ref]) IN
          /\ attrs' = [attrs EXCEPT ![g.ref] = r.o]
          /\ last' = Outcome("order_get", FALSE, [ref |-> g.ref, item |-> r.item], "none", NoMsg)
    /\ nreq' = nreq + 1
    /\ UNCHANGED <<engine, status, md_queue_l, nin, nuuid, budget, subVars, thread, robot>>

\* execution reports (order new or filled) and cancel rejects (order
\* still new)
OrderMsgs(n) == {m \in InMsgs(n) : m.mt = "8" \/ (m.mt = "9" /\ m.f[39] = "0")}

InitOrders ==
    /\ engine = [s \in Sessions |-> "absent"]
    /\ status = [k \in {} |-> NoneV]
    /\ attrs = CollectorInit
    /\ md_queue_l = RobotQueueLen
    /\ last = Outcome("init", FALSE, NoneV, "none", NoMsg)
    /\ nin = 0
    /\ nreq = 0
    /\ nuuid = 0
    /\ budget = MaxOrderCalls
    /\ sub = MDSub(RobotQueueLen)
    /\ arrived = <<>>
    /\ lastGot = 0
    /\ thread = Idle
    /\ robot = NotStarted

NextOrders ==
    \/ onCreate(TradeSession)
    \/ onLogon(TradeSession)
    \/ onLogout(TradeSession)
    \/ \E m \in OrderMsgs(nin + 1) : fromApp(m, TradeSession)
    \/ \E sym \in Symbols : \E id \in ClOrdIds : new_order_req(TradeSession, sym, id)
    \/ \E sym \in Symbols : \E t \in MdTypeLists : md_req(TradeSession, sym, t, "get", TRUE, 1)
    \/ \E name \in {"a", "o1"} : collector_deregister(name)
    \/ \E name \in {"c", "o1"} : caller_get(name)
    \/ \E name \in {"c"} \cup OrderIds : order_get(name)

SpecOrders == InitOrders /\ [][NextOrders]_vars

\* C16: Collector.get raises for no name; it returns a queue or None.
ClaimC16 == last.op = "get" => last.exc = "none"

\* C17: a snapshot (W) or reject (Y) for a market-data request id that
\* md_req(sub=False) has just unsubscribed is dropped by fromApp: no
\* exception, no collector queue changed.
C17Step ==
    LET m == last'.msg IN
    (/\ nin' = nin + 1
     /\ last'.con
     /\ m.mt \in {"W", "Y"}
     /\ last.op = "md_req"
     /\ last.msg # NoMsg
     /\ last.msg.f[263] = "2"
     /\ last.msg.f[262] = m.f[262]) =>
        /\ last'.exc = "none"
        /\ attrs' = attrs

ClaimC17 == [][C17Step]_vars

\* a step in which fromApp handled (returned from) an ExecutionReport or an
\* OrderCancelReject on a logged-on session
HandledReport ==
    /\ nin' = nin + 1
    /\ last'.con
    /\ last'.exc = "none"
    /\ last'.msg.mt \in OrderTypes

\* C18: after fromApp has handled a report with ClOrdID c and OrderID o,
\* collector.get(c) and collector.get(o) return the same OrderSeq, whose
\* most recently queued item is that report, whose status is the report's
\* OrdStatus and whose exante_id is o.
C18Step ==
    HandledReport =>
        LET m == last'.msg
            gc == collector_get(attrs', m.f[11])
            go == collector_get(attrs', m.f[37])
        IN  /\ gc.exc = "none"
            /\ go.exc = "none"
            /\ gc.ref = go.ref
            /\ go.ref \in DOMAIN attrs'
            /\ LET o == attrs'[go.ref] IN
               /\ o.kind = "OrderSeq"
               /\ Len(o.q) > 0
               /\ o.q[Len(o.q)].msg = m
               /\ o.status = m.f[39]
               /\ o.exante_id = m.f[37]

OrderSeqs == {o \in DOMAIN attrs : attrs[o].kind = "OrderSeq"}

\* C19 (state part): an OrderSeq holds reports of its own exchange order
\* only, in arrival order; they are the last qsize() of the reports whose
\* ClOrdIDs seq lists, so qsize() <= len(seq).
OrderSeqInv ==
    \A o \in OrderSeqs :
        LET q == attrs[o].q
            seq == attrs[o].seq
        IN  /\ Len(q) <= Len(seq)
            /\ \A i \in 1..Len(q) :
                  /\ q[i].msg.f[37] = o
                  /\ q[i].msg.f[11] = seq[Len(seq) - Len(q) + i]
            /\ \A i, j \in 1..Len(q) : i < j => q[i].msg.n < q[j].msg.n

\* C19 (step part): a handled report is appended to the OrderSeq of its
\* OrderID, whatever its ClOrdID, and its ClOrdID to seq; seq only ever
\* grows at its end; get returns the oldest waiting report, or None at
\* once when there is none.
C19Step ==
    /\ HandledReport =>
          LET m == last'.msg
              o == m.f[37]
              before == IF o \in OrderSeqs THEN attrs[o] ELSE OrderSeq
          IN  /\ attrs'[o].q = Append(before.q, Item(IF m.mt = "8" THEN "ExecutionReport"
                                                     ELSE "OrderCancelReject", m))
              /\ attrs'[o].seq = Append(before.seq, m.f[11])
              /\ \A k \in OrderSeqs \ {o} : k \in DOMAIN attrs' /\ attrs'[k] = attrs[k]
    /\ \A o \in OrderSeqs :
          (o \in DOMAIN attrs' /\ attrs'[o].kind = "OrderSeq") =>
              /\ Len(attrs'[o].seq) >= Len(attrs[o].seq)
              /\ SubSeq(attrs'[o].seq, 1, Len(attrs[o].seq)) = attrs[o].seq
    /\ (nreq' = nreq + 1 /\ last'.op = "order_get") =>
          LET r == last'.val.ref IN
          /\ r \in OrderSeqs
          /\ IF Len(attrs[r].q) = 0
             THEN last'.val.item = NoneV /\ attrs' = attrs
             ELSE /\ last'.val.item = Head(attrs[r].q)
                  /\ attrs' = [attrs EXCEPT ![r].q = Tail(@)]

---------------------------------------------------------------------------
(* Requests that number themselves: account summaries within one second of *)
(* the clock, security lists under a fresh uuid                            *)

MaxAccountCalls == 3   \* calls in a behaviour of SpecAccounts

\* ids the adapter makes up when the caller gives none
GeneratedIds == {str(Clock)} \cup {UuidIds[i] : i \in 1..Len(UuidIds)}

\* the responses to those requests
AccountMsgs(n) ==
    {[mt |-> t, f |-> (20020 :> id), n |-> n] : t \in {"UASR", "UASJ"}, id \in {str(Clock), "7"}}
    \cup {[mt |-> "y", f |-> (320 :> "u1"), n |-> n]}

InitAccounts ==
    /\ engine = [s \in Sessions |-> "absent"]
    /\ status = [k \in {} |-> NoneV]
    /\ attrs = CollectorInit
    /\ md_queue_l = RobotQueueLen
    /\ last = Outcome("init", FALSE, NoneV, "none", NoMsg)
    /\ nin = 0
    /\ nreq = 0
    /\ nuuid = 0
    /\ budget = MaxAccountCalls
    /\ sub = MDSub(RobotQueueLen)
    /\ arrived = <<>>
    /\ lastGot = 0
    /\ thread = Idle
    /\ robot = NotStarted

NextAccounts ==
    \/ onCreate(TradeSession)
    \/ onLogon(TradeSession)
    \/ onLogout(TradeSession)
    \/ \E m \in AccountMsgs(nin + 1) : fromApp(m, TradeSession)
    \/ \E id \in OptAccSumIds : account_summary_req(TradeSession, id)
    \/ security_list_req(TradeSession, NoneV)

SpecAccounts == InitAccounts /\ [][NextAccounts]_vars

\* C20: a request that numbers itself leaves the queue of every earlier
\* self-numbered request as it was, with the responses waiting in it.
C20Step ==
    (/\ nreq' = nreq + 1
     /\ last'.con
     /\ last'.op \in RequestMethods
     /\ last'.val \in GeneratedIds) =>
        \A k \in GeneratedIds :
            IsQueue(attrs, k) => k \in DOMAIN attrs' /\ attrs'[k] = attrs[k]

ClaimC20 == [][C20Step]_vars

---------------------------------------------------------------------------
(* Inbound traffic of every type on one session, beside the requests that  *)
(* register the queues it goes to                                          *)

MaxInboundCalls == 3   \* calls in a behaviour of SpecInbound

\* the responses and rejects the counterparty sends
InboundMsgs(n) ==
    {m \in InMsgs(n) :
        \/ m.mt \in IdTypes /\ m.f[IdTag(m.mt)] \in {"a", "7"}
        \/ m.mt = "8" /\ m.f[11] = "a" /\ m.f[37] = "o1" /\ m.f[39] = "0"
        \/ m.mt \in RejectTypes \cup UnknownTypes}

InitInbound ==
    /\ engine = [s \in Sessions |-> "absent"]
    /\ status = [k \in {} |-> NoneV]
    /\ attrs = CollectorInit
    /\ md_queue_l = RobotQueueLen
    /\ last = Outcome("init", FALSE, NoneV, "none", NoMsg)
    /\ nin = 0
    /\ nreq = 0
    /\ nuuid = 0
    /\ budget = MaxInboundCalls
    /\ sub = MDSub(RobotQueueLen)
    /\ arrived = <<>>
    /\ lastGot = 0
    /\ thread = Idle
    /\ robot = NotStarted

NextInbound ==
    \/ onCreate(TradeSession)
    \/ onLogon(TradeSession)
    \/ onLogout(TradeSession)
    \/ \E m \in InboundMsgs(nin + 1) : fromApp(m, TradeSession)
    \/ \E sym \in Symbols : \E t \in MdTypeLists : \E id \in {"a", "rejects"} :
          md_req(TradeSession, sym, t, id, TRUE, 1)
    \/ account_summary_req(TradeSession, 7)
    \/ security_list_req(TradeSession, "a")
    \/ \E d1 \in Dates : trades_capture_req(TradeSession, d1, NoneV, "a")
    \/ \E sym \in Symbols : trades_margin_req(TradeSession, sym, "a")

SpecInbound == InitInbound /\ [][NextInbound]_vars

\* the model class fromApp builds from a reject
RejectClass(m) == IF m.mt = "3" THEN "Reject" ELSE "BusinessReject"

\* C21: every Reject (3) and BusinessReject (j) received on a logged-on
\* session is appended to the collector's rejects queue, which is an
\* unbounded queue, so that none is dropped and they are read back in
\* arrival order; nothing else in the collector changes.
C21Step ==
    LET m == last'.msg IN
    (nin' = nin + 1 /\ last'.con /\ m.mt \in RejectTypes) =>
        /\ "rejects" \in DOMAIN attrs
        /\ "rejects" \in DOMAIN attrs'
        /\ attrs["rejects"].kind = "Queue"
        /\ attrs["rejects"].maxsize = 0
        /\ attrs'["rejects"] =
              [attrs["rejects"] EXCEPT !.q = Append(@, Item(RejectClass(m), m))]
        /\ DOMAIN attrs' = DOMAIN attrs
        /\ \A k \in DOMAIN attrs \ {"rejects"} : attrs'[k] = attrs[k]

ClaimC21 == [][C21Step]_vars

\* whether <object>.put(item) would wait for room.  MDSub.put never does:
\* it takes the oldest item out when the queue is at maxsize.  The put of
\* queue.Queue (block=True by default), which a plain Queue and the queue
\* inside an OrderSeq use, waits while a bounded queue is full.
PutWaits(o) ==
    IF o.kind = "MDSub" THEN FALSE
    ELSE o.maxsize > 0 /\ Len(o.q) >= o.maxsize

\* C22: no put that fromApp performs waits: every queue the collector
\* holds, whatever already sits in it unread, takes one more item at once.
TheoremC22 ==
    \A k \in DOMAIN attrs : IsQueue(attrs, k) => ~PutWaits(attrs[k])

\* C22's case: fromApp has just queued a response behind one that no
\* consumer has read
WitnessC22 ==
    /\ last.op = "fromApp"
    /\ last.con
    /\ last.exc = "none"
    /\ last.msg.mt \in IdTypes
    /\ \E k \in DOMAIN attrs :
          /\ attrs[k].kind = "Queue"
          /\ Len(attrs[k].q) = 2
          /\ attrs[k].q[2].msg = last.msg

\* C23: fromApp for a session that is not logged on drops the message,
\* whatever its type: the collector (every queue, the rejects queue, the
\* client-order-id map) is left as it was and nothing is raised.
C23Step ==
    (nin' = nin + 1 /\ engine[TradeSession] # "loggedOn") =>
        /\ attrs' = attrs
        /\ last'.exc = "none"

TheoremC23 == [][C23Step]_vars

\* C23's case: a snapshot arrives for a registered subscription after the
\* session has logged out, and the subscription's queue is still empty
WitnessC23 ==
    /\ last.op = "fromApp"
    /\ engine[TradeSession] = "loggedOut"
    /\ last.msg.mt = "W"
    /\ IsQueue(attrs, last.msg.f[262])
    /\ attrs[last.msg.f[262]].q = <<>>

\* the request methods that register a response queue
RegisteringMethods ==
    {"md_req", "account_summary_req", "security_list_req", "trades_capture_req",
     "trades_margin_req"}

\* the request id an outgoing message carries, as text
SentId(m) ==
    CASE m.mt = "V" -> m.f[262]
      [] m.mt = "UASQ" -> str(m.f[20020])
      [] m.mt = "x" -> m.f[320]
      [] m.mt = "AD" -> m.f[568]
      [] m.mt = "UTMQ" -> m.f[20050]

\* C26: a registering request (md_req with sub=True, account_summary_req,
\* security_list_req, trades_capture_req, trades_margin_req) on a logged-on
\* session returns the id its message carries -- the fresh one when it
\* drew one -- and collector.get of that id returns the queue registered
\* under it, the one fromApp puts the responses into.
C26Step ==
    LET m == last'.msg
        id == last'.val
    IN  (/\ nreq' = nreq + 1
         /\ last'.con
         /\ last'.op \in RegisteringMethods
         /\ last'.exc = "none"
         /\ last'.op = "md_req" => m.f[263] = "1") =>
            /\ id = SentId(m)
            /\ nuuid' = nuuid + 1 => id = UuidIds[nuuid']
            /\ collector_get(attrs', id).exc = "none"
            /\ collector_get(attrs', id).ref = id
            /\ IsQueue(attrs', id)

ClaimC26 == [][C26Step]_vars

---------------------------------------------------------------------------
(* Repeating groups: the count field a request sends beside its groups,    *)
(* and MDSnapshot reading the groups of a MarketDataSnapshotFullRefresh    *)

MaxGroupCalls == 2     \* calls in a behaviour of SpecGroups
MaxEntries == 2        \* most elements of md_type, most MDEntry groups in a snapshot

\* lists of MDEntryType values, the empty list among them
EntryTypeLists ==
    UNION {[1..n -> {"0", "1"}] : n \in 0..MaxEntries}

\* int(<field text>)
IntOf(text) == CHOOSE i \in 0..(MaxEntries + 1) : ToString(i) = text

\* snapshots as the engine hands them over: NoMDEntries (268) as text, and
\* the MDEntry groups the message holds, which may be fewer or more
SnapshotMsgs(n) ==
    {[mt |-> "W", f |-> (262 :> "a" @@ 55 :> sym @@ 268 :> ToString(cnt)),
      g |-> [i \in 1..Len(ts) |-> [no |-> 268, f |-> (269 :> ts[i] @@ 270 :> "1" @@ 271 :> "2")]],
      n |-> n] :
        sym \in Symbols, cnt \in 0..MaxEntries, ts \in EntryTypeLists}

\* how many groups of one count tag a message holds
GroupCount(m, no) == Cardinality({i \in 1..Len(m.g) : m.g[i].no = no})

\* MDSnapshot._MDEntry.__init__: message.getGroup(idx, group), then the
\* group's fields
_MDEntry(idx, message) ==
    [MDEntryType |-> message.g[idx].f[269],
     MDEntryPx |-> IntOf(message.g[idx].f[270]),
     MDEntrySize |-> IntOf(message.g[idx].f[271])]

\* an MDSnapshot that takes every group the message holds
MDSnapshot_allGroups(message) ==
    [exc |-> "none",
     obj |-> [MDReqID |-> message.f[262], Symbol |-> message.f[55],
              NoMDEntries |-> IntOf(message.f[268]),
              MDEntry |-> [i \in 1..Len(message.g) |-> _MDEntry(i, message)]]]

\* MDSnapshot.__init__: NoMDEntries = int(getField(268)); MDEntry = one
\* _MDEntry per i in range(NoMDEntries); getGroup raises FieldNotFound for
\* an index past the groups the message holds
MDSnapshot(message) ==
    LET NoMDEntries == IntOf(message.f[268]) IN
    IF NoMDEntries > GroupCount(message, 268)
    THEN [exc |-> "FieldNotFound", obj |-> NoneV]
    ELSE [exc |-> "none",
          obj |-> [MDReqID |-> message.f[262], Symbol |-> message.f[55],
                   NoMDEntries |-> NoMDEntries,
                   MDEntry |-> [i \in 1..NoMDEntries |-> _MDEntry(i, message)]]]

\* a snapshot is decoded: MDSnapshot(message), as fromApp does for "W"
decode(message) ==
    /\ MayCall
    /\ message.n = nin + 1
    /\ LET r == MDSnapshot(message) IN
       last' = Outcome("MDSnapshot", FALSE, r.obj, r.exc, message)
    /\ nin' = nin + 1
    /\ UNCHANGED <<engine, status, collectorVars, nreq, nuuid, budget, subVars, thread, robot>>

InitGroups ==
    /\ engine = [s \in Sessions |-> "absent"]
    /\ status = [k \in {} |-> NoneV]
    /\ attrs = CollectorInit
    /\ md_queue_l = RobotQueueLen
    /\ last = Outcome("init", FALSE, NoneV, "none", NoMsg)
    /\ nin = 0
    /\ nreq = 0
    /\ nuuid = 0
    /\ budget = MaxGroupCalls
    /\ sub = MDSub(RobotQueueLen)
    /\ arrived = <<>>
    /\ lastGot = 0
    /\ thread = Idle
    /\ robot = NotStarted

NextGroups ==
    \/ onCreate(TradeSession)
    \/ onLogon(TradeSession)
    \/ \E sym \in Symbols : \E t \in EntryTypeLists : \E sub_ \in BOOLEAN :
          md_req(TradeSession, sym, t, "a", sub_, 1)
    \/ \E d1 \in Dates : \E d2 \in Dates \cup {NoneV} :
          trades_capture_req(TradeSession, d1, d2, "a")
    \/ \E m \in SnapshotMsgs(nin + 1) : decode(m)

SpecGroups == InitGroups /\ [][NextGroups]_vars

\* C27: the groups sent or read are as many as the count field says:
\* md_req's NoMDEntryTypes (267) counts its entry-type groups, one per
\* element of md_type; trades_capture_req's NoDates (580) counts its
\* TradeDate groups; a decoded MDSnapshot holds NoMDEntries entries, the
\* number its message gave in 268.
TheoremC27 ==
    /\ last.msg.mt = "V" =>
          /\ last.msg.f[267] = GroupCount(last.msg, 267)
          /\ Len(last.msg.g) = 1 + last.msg.f[267]
    /\ last.msg.mt = "AD" =>
          /\ last.msg.f[580] = GroupCount(last.msg, 580)
          /\ last.msg.f[580] \in {1, 2}
    /\ (last.op = "MDSnapshot" /\ last.exc = "none") =>
          /\ Len(last.val.MDEntry) = last.val.NoMDEntries
          /\ last.val.NoMDEntries = IntOf(last.msg.f[268])

\* C27's case: a snapshot with as many entries as the bound allows has
\* been decoded, in a behaviour that also made a request
WitnessC27 ==
    /\ last.op = "MDSnapshot"
    /\ last.exc = "none"
    /\ last.val.NoMDEntries = MaxEntries
    /\ nreq = 1

---------------------------------------------------------------------------
(* The robot (tests/fix_robot.py): FeedHandler.run on its own thread,      *)
(* beside the engine's callbacks.  One symbol is traded; prices are left   *)
(* out, the comparison of the quote with the last price is an input.       *)

MaxRobotCalls == 3     \* messages the engine hands to fromApp in a behaviour of SpecRobot

\* the session quotes come on
FeedSession == CHOOSE s \in Sessions : s.TargetCompID = "FEED"

\* OrderStatus.CANCELLED, OrderStatus.REJECTED, OrderStatus.FILLED
Finished == {"4", "8", "2"}

\* Decimal(<field text>) of a quantity
Decimal(text) == IF text = "1" THEN 1 ELSE 0

\* what the counterparty sends the robot: account summaries for the id the
\* robot's request took, quotes for its subscription, reports on its order
RobotMsgs(n) ==
    {[mt |-> "UASR", f |-> (20020 :> str(Clock) @@ 48 :> sym @@ 704 :> l @@ 705 :> s), n |-> n] :
        sym \in Symbols, l \in {"0", "1"}, s \in {"1"}}
    \cup {[mt |-> "UASJ", f |-> (20020 :> str(Clock)), n |-> n]}
    \cup {[mt |-> t, f |-> (262 :> UuidIds[1]), n |-> n] : t \in {"W", "Y"}}
    \cup {[mt |-> "8", f |-> (11 :> UuidIds[2] @@ 37 :> "o1" @@ 39 :> st), n |-> n] :
            st \in OrdStatuses}

\* the thread has ended with an exception that run does not catch
Raised == [robot EXCEPT !.pc = "raised"]

\* self.client.account_summary_req(self.bs.ses, self.account), as the
\* robot calls it: the collector afterwards and the id returned
client_account_summary_req(c) ==
    IF _iscon(TradeSession)
    THEN [c |-> register(c, str(Clock), "AccSum", md_queue_l), ret |-> str(Clock)]
    ELSE [c |-> c, ret |-> NoneV]

\* self.client.md_req(self.fs.ses, symbol, [Bid, Offer]) without md_req_id
client_md_req(c) ==
    IF _iscon(FeedSession)
    THEN [c |-> register(c, uuid4, "MD", md_queue_l), ret |-> uuid4]
    ELSE [c |-> c, ret |-> NoneV]

\* self.client.new_order_req(...) / self.client.order_replace_req(...)
\* without client_order_id: a fresh id, bound in _ord_map after the send
client_order_req(c) ==
    IF _iscon(TradeSession)
    THEN [c |-> bound_cl_ord_id(c, uuid4, NoneV).c, ret |-> uuid4]
    ELSE [c |-> c, ret |-> NoneV]

robotFrame == <<engine, status, md_queue_l, last, nin, nreq, budget, subVars, thread>>

\* run, up to init_state's `q = self.collector.get(acc_sum_id)`.  The
\* FeedHandler took fs and bs from client.status when it was constructed;
\* collector.get(None) raises TypeError
init_state_request ==
    /\ robot.pc = "new"
    /\ IF {toString(FeedSession), toString(TradeSession)} \subseteq DOMAIN status
       THEN LET r == client_account_summary_req(attrs)
                g == collector_get(r.c, r.ret)
            IN  /\ attrs' = r.c
                /\ robot' = IF r.ret = NoneV \/ g.exc # "none" \/ g.ref = NoneV
                            THEN Raised
                            ELSE [robot EXCEPT !.pc = "init_state", !.acc_sum_id = g.ref]
       ELSE attrs' = attrs /\ robot' = Raised
    /\ UNCHANGED <<robotFrame, nuuid>>

\* init_state, one turn of `while not q.empty()`: p = q.get(); for an
\* AccSumResponse on the robot's symbol, md_req and a new State
init_state_read ==
    /\ robot.pc = "init_state"
    /\ robot.acc_sum_id \in DOMAIN attrs
    /\ nuuid < Len(UuidIds)
    /\ LET q == attrs[robot.acc_sum_id] IN
       IF Len(q.q) = 0
       THEN /\ robot' = [robot EXCEPT !.pc = "loop"]
            /\ UNCHANGED <<attrs, nuuid>>
       ELSE LET p == Head(q.q)
                c1 == [attrs EXCEPT ![robot.acc_sum_id].q = Tail(@)]
            IN  IF p.cls = "AccSumResponse" /\ p.msg.f[48] \in Symbols
                THEN LET r == client_md_req(c1)
                         LongQty == Decimal(p.msg.f[704])
                         ShortQty == Decimal(p.msg.f[705])
                     IN  /\ attrs' = r.c
                         /\ nuuid' = IF r.ret = NoneV THEN nuuid ELSE nuuid + 1
                         /\ robot' = [robot EXCEPT
                                        !.has_state = TRUE,
                                        !.position = IF LongQty # 0 THEN LongQty ELSE -ShortQty,
                                        !.md_id = r.ret,
                                        !.order = NoneV]
                ELSE /\ attrs' = c1
                     /\ robot' = robot
                     /\ nuuid' = nuuid
    /\ UNCHANGED robotFrame

\* `while self.fs.logened and self.bs.logened:`
loop_test ==
    /\ robot.pc = "loop"
    /\ robot' = [robot EXCEPT !.pc =
                    IF /\ logened(status[toString(FeedSession)])
                       /\ logened(status[toString(TradeSession)])
                    THEN "body" ELSE "exited"]
    /\ UNCHANGED <<robotFrame, attrs, nuuid>>

\* the loop's body for the symbol, to the end of the try block: take a
\* quote without waiting (Empty: continue) and, when the price has moved
\* off by more than the range and there is a position, replace the working
\* order or place a new one
body(far) ==
    /\ robot.pc = "body"
    /\ nuuid < Len(UuidIds)
    /\ IF ~robot.has_state \/ robot.md_id = NoneV
       THEN robot' = Raised /\ UNCHANGED <<attrs, nuuid>>
       ELSE LET g == collector_get(attrs, robot.md_id) IN
            IF g.exc # "none" \/ g.ref = NoneV \/ g.ref \notin DOMAIN attrs
            THEN robot' = Raised /\ UNCHANGED <<attrs, nuuid>>
            ELSE IF attrs[g.ref].kind \notin {"MDSub", "Queue"}
            THEN robot' = Raised /\ UNCHANGED <<attrs, nuuid>>
            ELSE IF Len(attrs[g.ref].q) = 0
            THEN robot' = [robot EXCEPT !.pc = "loop"] /\ UNCHANGED <<attrs, nuuid>>
            ELSE LET quote == Head(attrs[g.ref].q)
                     c1 == [attrs EXCEPT ![g.ref].q = Tail(@)]
                 IN  IF quote.cls # "MDSnapshot"
                     THEN attrs' = c1 /\ robot' = Raised /\ nuuid' = nuuid
                     ELSE IF far /\ robot.position # 0
                     THEN LET r == client_order_req(c1) IN
                          /\ attrs' = r.c
                          /\ nuuid' = IF r.ret = NoneV THEN nuuid ELSE nuuid + 1
                          /\ robot' = [robot EXCEPT !.pc = "check", !.order = r.ret]
                     ELSE /\ attrs' = c1
                          /\ nuuid' = nuuid
                          /\ robot' = [robot EXCEPT !.pc = "check"]
    /\ UNCHANGED robotFrame

\* the rest of the body: q = self.collector.get(state.order); on a
\* finished status `state.order = None`, then
\* `self.collector.deregister(state.order)`, then the position moves back
\* by the order's size
check ==
    /\ robot.pc = "check"
    /\ IF robot.order = NoneV
       THEN robot' = Raised /\ attrs' = attrs
       ELSE LET g == collector_get(attrs, robot.order) IN
            IF g.exc # "none" \/ g.ref = NoneV \/ g.ref \notin DOMAIN attrs
            THEN robot' = Raised /\ attrs' = attrs
            ELSE IF attrs[g.ref].status = NoneV
            THEN robot' = Raised /\ attrs' = attrs
            ELSE IF attrs[g.ref].status \in Finished
            THEN LET order == NoneV
                     d == deregister(attrs, order)
                 IN  /\ attrs' = d.c
                     /\ robot' = IF d.exc # "none" THEN Raised
                                 ELSE [robot EXCEPT
                                         !.pc = "loop",
                                         !.order = order,
                                         !.position = IF @ < 0 THEN @ + 1 ELSE @ - 1]
            ELSE robot' = [robot EXCEPT !.pc = "loop"] /\ attrs' = attrs
    /\ UNCHANGED <<robotFrame, nuuid>>

InitRobot ==
    /\ engine = [s \in Sessions |-> "absent"]
    /\ status = [k \in {} |-> NoneV]
    /\ attrs = CollectorInit
    /\ md_queue_l = RobotQueueLen
    /\ last = Outcome("init", FALSE, NoneV, "none", NoMsg)
    /\ nin = 0
    /\ nreq = 0
    /\ nuuid = 0
    /\ budget = MaxRobotCalls
    /\ sub = MDSub(RobotQueueLen)
    /\ arrived = <<>>
    /\ lastGot = 0
    /\ thread = Idle
    /\ robot = NotStarted

\* the counterparty answers requests: a message carries the id of a
\* request the robot has made
Solicited(m) ==
    CASE m.mt \in {"UASR", "UASJ"} -> robot.acc_sum_id = m.f[20020]
      [] m.mt \in {"W", "Y"} -> robot.md_id = m.f[262]
      [] m.mt = "8" -> robot.order = m.f[11]

\* the engine makes each session once, before the robot starts
NextRobot ==
    \/ \E s \in Sessions : engine[s] = "absent" /\ robot.pc = "new" /\ onCreate(s)
    \/ \E s \in Sessions : onLogon(s)
    \/ \E s \in Sessions : onLogout(s)
    \/ \E s \in Sessions : \E m \in RobotMsgs(nin + 1) : Solicited(m) /\ fromApp(m, s)
    \/ init_state_request
    \/ init_state_read
    \/ loop_test
    \/ \E far \in BOOLEAN : body(far)
    \/ check

SpecRobot == InitRobot /\ [][NextRobot]_vars

\* C24: the loop of FeedHandler.run ends once the feed session or the
\* trade session has logged out: its test does not pass, and the body does
\* not run again, while an onLogout has been delivered for either session
\* and no onLogon since.
C24Step ==
    (robot.pc = "loop" /\ robot'.pc = "body") =>
        /\ engine[FeedSession] # "loggedOut"
        /\ engine[TradeSession] # "loggedOut"

ClaimC24 == [][C24Step]_vars

\* C25: when the robot finds its working order CANCELLED, REJECTED or
\* FILLED it clears the working order, and that order's queue and its
\* client-order-id bindings are gone from the collector afterwards.
C25Step ==
    LET g == collector_get(attrs, robot.order) IN
    (/\ robot.pc = "check"
     /\ robot'.pc # "check"
     /\ robot.order # NoneV
     /\ g.exc = "none"
     /\ g.ref \in DOMAIN attrs
     /\ attrs[g.ref].status \in Finished) =>
        /\ robot'.order = NoneV
        /\ g.ref \notin DOMAIN attrs'
        /\ \A i \in 1..Len(attrs'["_ord_map"].map) :
              /\ attrs'["_ord_map"].map[i].k # robot.order
              /\ attrs'["_ord_map"].map[i].v # g.ref

ClaimC25 == [][C25Step]_vars

=============================================================================
